---- MODULE Spec2Model ----
(***************************************************************************)
(* Bloom-filter block pruning of the fuse storage engine                   *)
(* (query/src/storages/fuse/pruning/bloom_pruner.rs).                      *)
(*                                                                         *)
(* The model covers the pruner factory new_bloom_filter_pruner, the        *)
(* equality-column extraction (PointQueryVisitor), the two pruners         *)
(* (NonPruner, BloomFilterIndexPruner) and concurrent should_keep calls    *)
(* that suspend on the index load.  The collaborators that live in other   *)
(* crates (Expression::accept, the accessor, BloomFilterIndexer, the       *)
(* location generator) are modelled at their interface.                    *)
(***************************************************************************)
EXTENDS Naturals, Sequences, FiniteSets, TLC

VARIABLES
    store,             \* the accessor's content: location -> stored index data
    factory,           \* "pending" | "ok" | "err": outcome of new_bloom_filter_pruner
    filter_expr,       \* Option<&Expression> handed to the factory / extractor
    point_query_cols,  \* Result<Vec<String>> of columns_names_of_eq_expressions
    pruner,            \* the Arc<dyn BloomFilterPruner> shared by all calls
    pc,                \* per call slot: "idle" | "loading" | "done"
    arg,               \* per call slot: the block path of the current call
    inflight,          \* per call slot: the load request awaiting completion
    nload,             \* per call slot: loads issued by the current call
    result,            \* per call slot: what the current call returned
    requests,          \* every load request the accessor has received
    observed           \* per block: the booleans should_keep has returned for it

vars == <<store, factory, filter_expr, point_query_cols, pruner, pc, arg,
          inflight, nload, result, requests, observed>>

-----------------------------------------------------------------------------
(* Bounds *)

MaxTreeNodes == 7      \* predicate trees given to the extractor alone
MaxExprNodes == 3      \* predicate trees given to the factory of a scan
NumTasks == 2          \* concurrent should_keep calls

-----------------------------------------------------------------------------
(* Predicate trees (common_planners::Expression)                           *)

Columns == {"a", "b"}
Literals == {1, 2}
BinaryOps == {"=", ">", "and"}
Blocks == {"blk1", "blk2"}
Tasks == 1..NumTasks

None == <<"None">>

Column(name) == <<"Column", name>>
Literal(value) == <<"Literal", value>>
BinaryExpression(left, op, right) == <<"BinaryExpression", left, op, right>>
UnaryExpression(op, expr) == <<"UnaryExpression", op, expr>>

IsColumn(e) == e[1] = "Column"
IsLiteral(e) == e[1] = "Literal"
IsBinary(e) == e[1] = "BinaryExpression"
IsUnary(e) == e[1] = "UnaryExpression"

LeafExprs == {Column(c) : c \in Columns} \cup {Literal(v) : v \in Literals}

\* the trees of exactly 1, 2, ..., n nodes over the given leaves
RECURSIVE ExprLevels(_, _)
ExprLevels(leaves, n) ==
    IF n = 0 THEN <<>>
    ELSE IF n = 1 THEN <<leaves>>
    ELSE LET prev == ExprLevels(leaves, n - 1) IN
         Append(prev,
            {UnaryExpression("not", e) : e \in prev[n - 1]}
            \cup UNION {
               {BinaryExpression(p[1], op, p[2]) :
                    p \in prev[i] \X prev[n - 1 - i], op \in BinaryOps} :
               i \in 1..(n - 2)})

SmallLevels == ExprLevels(LeafExprs, MaxTreeNodes - 2)
SmallExprs(k) == IF k \in 1..(MaxTreeNodes - 2) THEN SmallLevels[k] ELSE {}

\* e is a tree of exactly n nodes, n > MaxTreeNodes - 2, whose root is binary
IsBinaryOfSize(e, n) ==
    \E i \in 1..(n - 2) :
        \E l \in SmallExprs(i), r \in SmallExprs(n - 1 - i), op \in BinaryOps :
            e = BinaryExpression(l, op, r)

\* e is a tree of at most MaxTreeNodes nodes
IsTreeInput(e) ==
    \/ \E k \in 1..(MaxTreeNodes - 2) : e \in SmallExprs(k)
    \/ \E n \in (MaxTreeNodes - 1)..MaxTreeNodes :
          \/ IsBinaryOfSize(e, n)
          \/ \E c \in SmallExprs(n - 2) :
                e = UnaryExpression("not", UnaryExpression("not", c))
          \/ \E i \in 1..(n - 3) :
                \E l \in SmallExprs(i), r \in SmallExprs(n - 2 - i), op \in BinaryOps :
                    e = UnaryExpression("not", BinaryExpression(l, op, r))

\* the predicates of a scan: every tree of at most MaxExprNodes nodes over
\* column a and the literal 1, and a point test on either column joined by
\* and / or with a second point test, written either way round
ScanLeaves == {Column("a"), Literal(1)}

PointTests ==
    {BinaryExpression(Column(c), "=", Literal(1)) : c \in Columns}
    \cup {BinaryExpression(Literal(1), "=", Column(c)) : c \in Columns}

ScanPredicates ==
    UNION {ExprLevels(ScanLeaves, MaxExprNodes)[k] : k \in 1..MaxExprNodes}
    \cup {BinaryExpression(BinaryExpression(Column(c), "=", Literal(1)), op, r) :
            c \in Columns, op \in {"and", "or"}, r \in PointTests}

-----------------------------------------------------------------------------
(* Equality-column extraction                                              *)

\* pre_visit that recognises only the column-on-the-left form
pre_visit_column_left_only(columns, expr) ==
    IF IsBinary(expr) /\ expr[3] = "="
    THEN IF IsColumn(expr[2]) /\ IsLiteral(expr[4])
         THEN [recursion |-> "Stop", columns |-> columns \cup {expr[2][2]}]
         ELSE [recursion |-> "Continue", columns |-> columns]
    ELSE [recursion |-> "Continue", columns |-> columns]

\* PointQueryVisitor::pre_visit: the visitor state is the column set
pre_visit(columns, expr) ==
    IF IsBinary(expr) /\ expr[3] = "="
    THEN IF \/ IsColumn(expr[2]) /\ IsLiteral(expr[4])
            \/ IsLiteral(expr[2]) /\ IsColumn(expr[4])
         THEN [recursion |-> "Stop",
               columns |-> columns \cup
                   {IF IsColumn(expr[2]) THEN expr[2][2] ELSE expr[4][2]}]
         ELSE [recursion |-> "Continue", columns |-> columns]
    ELSE [recursion |-> "Continue", columns |-> columns]

\* Expression::accept: pre-order walk, Stop skips the node's children
RECURSIVE accept(_, _)
accept(columns, expr) ==
    LET r == pre_visit(columns, expr) IN
    IF r.recursion = "Stop" THEN r.columns
    ELSE IF IsBinary(expr) THEN accept(accept(r.columns, expr[2]), expr[4])
    ELSE IF IsUnary(expr) THEN accept(r.columns, expr[3])
    ELSE r.columns

\* HashSet::into_iter().collect(): every iteration order of the set
Orderings(S) ==
    {s \in [1..Cardinality(S) -> S] :
        \A i, j \in 1..Cardinality(S) : i # j => s[i] # s[j]}

Ok(v) == [ok |-> TRUE, v |-> v]
Err == [ok |-> FALSE, v |-> <<>>]
Unset == [ok |-> FALSE, v |-> <<"unset">>]

\* columns_names_of_eq_expressions: the possible results for one traversal
columns_names_of_eq_expressions(expr, traversal_fails) ==
    IF traversal_fails THEN {Err}
    ELSE {Ok(s) : s \in Orderings(accept({}, expr))}

-----------------------------------------------------------------------------
(* Collaborators: naming conventions, accessor, bloom filter index          *)

\* BloomFilterIndexer::to_bloom_column_name
to_bloom_column_name(n) == "Bloom(" \o n \o ")"

\* TableMetaLocationGenerator::block_bloom_index_location
block_bloom_index_location(block_path) == block_path \o "/bloom_index"

BloomColumns == {to_bloom_column_name(c) : c \in Columns}
Locations == {block_bloom_index_location(b) : b \in Blocks}

\* the schema of the data being indexed
Schema == <<"a", "b">>

\* one column's bloom summary as stored: a decodable bit set, or garbage
ValidFilters == {[valid |-> TRUE, bits |-> s] : s \in {{}, {1}}}
InvalidFilter == [valid |-> FALSE, bits |-> {}]

\* the column sets a block's index may cover: none, a only, or both
IndexedColumnSets == {{}, {to_bloom_column_name("a")}, BloomColumns}

\* the index of one block: the indexed columns and their summaries, either
\* all decodable or all garbage
BlockIndexes ==
    UNION {[cs -> ValidFilters] : cs \in IndexedColumnSets}
    \cup {[c \in cs |-> InvalidFilter] : cs \in IndexedColumnSets \ {{}}}

StoredData ==
    {[status |-> "io_error", index |-> <<>>],
     [status |-> "corrupt", index |-> <<>>]}
    \cup {[status |-> "ok", index |-> ix] : ix \in BlockIndexes}

Restrict(f, S) == [x \in (DOMAIN f) \cap S |-> f[x]]

SeqRange(s) == {s[i] : i \in 1..Len(s)}

\* load_bloom_filter_by_columns: partial read of the requested columns
load_bloom_filter_by_columns(st, col_names, location) ==
    IF location \notin DOMAIN st THEN Err
    ELSE IF st[location].status = "io_error" THEN Err
    ELSE IF st[location].status = "corrupt"
         THEN Ok([corrupt |-> TRUE, columns |-> <<>>])
    ELSE Ok([corrupt |-> FALSE,
             columns |-> Restrict(st[location].index, SeqRange(col_names))])

\* BloomFilterIndexer::from_bloom_block
from_bloom_block(schema, filter_block) ==
    IF filter_block.corrupt THEN Err ELSE Ok(filter_block.columns)

\* BloomFilterIndexer::eval: "False" (proved absent), "Maybe", or "Error"
RECURSIVE eval(_, _)
eval(index, expr) ==
    IF ~IsBinary(expr) THEN "Maybe"
    ELSE IF expr[3] = "="
    THEN IF \/ IsColumn(expr[2]) /\ IsLiteral(expr[4])
            \/ IsLiteral(expr[2]) /\ IsColumn(expr[4])
         THEN LET col == IF IsColumn(expr[2]) THEN expr[2][2] ELSE expr[4][2]
                  lit == IF IsColumn(expr[2]) THEN expr[4][2] ELSE expr[2][2]
                  bc == to_bloom_column_name(col)
              IN  IF bc \notin DOMAIN index THEN "Maybe"
                  ELSE IF ~index[bc].valid THEN "Error"
                  ELSE IF lit \in index[bc].bits THEN "Maybe"
                  ELSE "False"
         ELSE "Maybe"
    ELSE IF expr[3] \in {"and", "or"}
    THEN LET l == eval(index, expr[2])
             r == eval(index, expr[4])
         IN  IF l = "Error" \/ r = "Error" THEN "Error"
             ELSE IF expr[3] = "and"
                  THEN IF l = "False" \/ r = "False" THEN "False" ELSE "Maybe"
                  ELSE IF l = "False" /\ r = "False" THEN "False" ELSE "Maybe"
    ELSE "Maybe"

\* BloomFilterIndexer::maybe_true
maybe_true(index, expr) ==
    LET e == eval(index, expr) IN
    IF e = "Error" THEN Err ELSE Ok(e # "False")

-----------------------------------------------------------------------------
(* The pruners and the factory                                             *)

Unbuilt ==
    [kind |-> "Unbuilt", index_columns |-> <<>>,
     filter_expression |-> None, data_schema |-> <<>>]

NonPruner ==
    [kind |-> "NonPruner", index_columns |-> <<>>,
     filter_expression |-> None, data_schema |-> <<>>]

\* BloomFilterIndexPruner::new
BloomFilterIndexPruner(index_columns, filter_expression, data_schema) ==
    [kind |-> "BloomFilterIndexPruner", index_columns |-> index_columns,
     filter_expression |-> filter_expression, data_schema |-> data_schema]

\* the factory without the is_empty test on the extracted columns
new_bloom_filter_pruner_no_empty_check(expr, cols, schema) ==
    IF expr # None
    THEN IF ~cols.ok THEN Err
         ELSE Ok(BloomFilterIndexPruner(
                   [i \in 1..Len(cols.v) |-> to_bloom_column_name(cols.v[i])],
                   expr, schema))
    ELSE Ok(NonPruner)

\* the factory handing the table's column names to the pruner untranslated
new_bloom_filter_pruner_untranslated(expr, cols, schema) ==
    IF expr # None
    THEN IF ~cols.ok THEN Err
         ELSE IF Len(cols.v) # 0
              THEN Ok(BloomFilterIndexPruner(cols.v, expr, schema))
              ELSE Ok(NonPruner)
    ELSE Ok(NonPruner)

\* the factory falling back to the NonPruner when the extraction fails
new_bloom_filter_pruner_swallow(expr, cols, schema) ==
    IF expr # None /\ cols.ok /\ Len(cols.v) # 0
    THEN Ok(BloomFilterIndexPruner(
              [i \in 1..Len(cols.v) |-> to_bloom_column_name(cols.v[i])],
              expr, schema))
    ELSE Ok(NonPruner)

\* new_bloom_filter_pruner, given the extraction result for the predicate
new_bloom_filter_pruner(expr, cols, schema) ==
    IF expr # None
    THEN IF ~cols.ok THEN Err
         ELSE IF Len(cols.v) # 0
              THEN Ok(BloomFilterIndexPruner(
                        [i \in 1..Len(cols.v) |-> to_bloom_column_name(cols.v[i])],
                        expr, schema))
              ELSE Ok(NonPruner)
    ELSE Ok(NonPruner)

\* filter_block_by_bloom_index, first half: the request issued before .await
load_request(p, block_path) ==
    [cols |-> p.index_columns,
     loc |-> block_bloom_index_location(block_path)]

\* the answer taken from a slot shared by all suspended calls
load_response_shared(t) ==
    LET u == CHOOSE x \in Tasks :
                 /\ pc[x] = "loading"
                 /\ \A y \in Tasks : pc[y] = "loading" => x <= y
    IN  load_bloom_filter_by_columns(store, inflight[u].cols, inflight[u].loc)

\* the accessor's answer to the request a call is suspended on
load_response(t) ==
    load_bloom_filter_by_columns(store, inflight[t].cols, inflight[t].loc)

\* filter_block_by_bloom_index, second half: after the load has completed
filter_block_by_bloom_index(p, loaded) ==
    IF ~loaded.ok THEN Err
    ELSE LET ix == from_bloom_block(p.data_schema, loaded.v) IN
         IF ~ix.ok THEN Err
         ELSE maybe_true(ix.v, p.filter_expression)

NoResult == [kind |-> "none", value |-> FALSE, warned |-> FALSE]

\* should_keep handing the error to its caller
should_keep_propagate(r) ==
    IF r.ok THEN [kind |-> "bool", value |-> r.v, warned |-> FALSE]
    ELSE [kind |-> "err", value |-> FALSE, warned |-> FALSE]

\* should_keep returning the negation of maybe_true
should_keep_negated(r) ==
    IF r.ok THEN [kind |-> "bool", value |-> ~r.v, warned |-> FALSE]
    ELSE [kind |-> "bool", value |-> TRUE, warned |-> TRUE]

\* should_keep that keeps once any earlier call has decided to skip
should_keep_sticky(r) ==
    IF r.ok
    THEN [kind |-> "bool",
          value |-> r.v \/ (\E b \in Blocks : FALSE \in observed[b]),
          warned |-> FALSE]
    ELSE [kind |-> "bool", value |-> TRUE, warned |-> TRUE]

\* BloomFilterIndexPruner::should_keep: the match on the Result
should_keep(r) ==
    IF r.ok THEN [kind |-> "bool", value |-> r.v, warned |-> FALSE]
    ELSE [kind |-> "bool", value |-> TRUE, warned |-> TRUE]

\* a NonPruner that prunes
non_pruner_should_skip(loc) ==
    [kind |-> "bool", value |-> FALSE, warned |-> FALSE]

\* NonPruner::should_keep
non_pruner_should_keep(loc) ==
    [kind |-> "bool", value |-> TRUE, warned |-> FALSE]

-----------------------------------------------------------------------------
(* State machine                                                           *)

NoRequest == [cols |-> <<>>, loc |-> ""]

Init ==
    /\ store \in [Locations -> StoredData]
    /\ factory = "pending"
    /\ filter_expr = None
    /\ point_query_cols = Unset
    /\ pruner = Unbuilt
    /\ pc = [t \in Tasks |-> "idle"]
    /\ arg = [t \in Tasks |-> ""]
    /\ inflight = [t \in Tasks |-> NoRequest]
    /\ nload = [t \in Tasks |-> 0]
    /\ result = [t \in Tasks |-> NoResult]
    /\ requests = {}
    /\ observed = [b \in Blocks |-> {}]

\* scan setup: the factory runs once, on the optional predicate of the scan
BuildPruner ==
    /\ factory = "pending"
    /\ \E expr \in {None} \cup ScanPredicates, fails \in BOOLEAN :
         /\ expr = None => ~fails
         /\ \E cols \in (IF expr = None THEN {Unset}
                         ELSE columns_names_of_eq_expressions(expr, fails)) :
              LET r == new_bloom_filter_pruner(expr, cols, Schema) IN
              /\ filter_expr' = expr
              /\ point_query_cols' = cols
              /\ factory' = IF r.ok THEN "ok" ELSE "err"
              /\ pruner' = IF r.ok THEN r.v ELSE Unbuilt
    /\ UNCHANGED <<store, pc, arg, inflight, nload, result, requests, observed>>

\* a should_keep call on the NonPruner: no await point, returns at once
CallNonPruner(t) ==
    /\ factory = "ok"
    /\ pruner.kind = "NonPruner"
    /\ pc[t] \in {"idle", "done"}
    /\ \E b \in Blocks :
         LET v == non_pruner_should_keep(b) IN
         /\ arg' = [arg EXCEPT ![t] = b]
         /\ result' = [result EXCEPT ![t] = v]
         /\ observed' = [observed EXCEPT ![b] = @ \cup {v.value}]
    /\ pc' = [pc EXCEPT ![t] = "done"]
    /\ nload' = [nload EXCEPT ![t] = 0]
    /\ UNCHANGED <<store, factory, filter_expr, point_query_cols, pruner,
                   inflight, requests>>

\* a should_keep call on the index pruner, up to the .await of the load
CallShouldKeep(t) ==
    /\ factory = "ok"
    /\ pruner.kind = "BloomFilterIndexPruner"
    /\ pc[t] \in {"idle", "done"}
    /\ \E b \in Blocks :
         LET rq == load_request(pruner, b) IN
         /\ arg' = [arg EXCEPT ![t] = b]
         /\ inflight' = [inflight EXCEPT ![t] = rq]
         /\ requests' = requests \cup {rq}
    /\ pc' = [pc EXCEPT ![t] = "loading"]
    /\ nload' = [nload EXCEPT ![t] = 1]
    /\ result' = [result EXCEPT ![t] = NoResult]
    /\ UNCHANGED <<store, factory, filter_expr, point_query_cols, pruner,
                   observed>>

\* the completion step with one retry of a failed load
ResumeShouldKeepRetry(t) ==
    /\ pc[t] = "loading"
    /\ IF ~load_response(t).ok /\ nload[t] < 2
       THEN /\ nload' = [nload EXCEPT ![t] = @ + 1]
            /\ UNCHANGED <<pc, inflight, result, observed>>
       ELSE /\ LET v == should_keep(filter_block_by_bloom_index(pruner, load_response(t))) IN
                 /\ result' = [result EXCEPT ![t] = v]
                 /\ observed' = [observed EXCEPT ![arg[t]] = @ \cup {v.value}]
            /\ pc' = [pc EXCEPT ![t] = "done"]
            /\ inflight' = [inflight EXCEPT ![t] = NoRequest]
            /\ UNCHANGED nload
    /\ UNCHANGED <<store, factory, filter_expr, point_query_cols, pruner,
                   arg, requests>>

\* the load completes: decode, evaluate, convert errors to keep, return
ResumeShouldKeep(t) ==
    /\ pc[t] = "loading"
    /\ LET v == should_keep(filter_block_by_bloom_index(pruner, load_response(t))) IN
         /\ result' = [result EXCEPT ![t] = v]
         /\ observed' = [observed EXCEPT ![arg[t]] = @ \cup {v.value}]
    /\ pc' = [pc EXCEPT ![t] = "done"]
    /\ inflight' = [inflight EXCEPT ![t] = NoRequest]
    /\ UNCHANGED <<store, factory, filter_expr, point_query_cols, pruner,
                   arg, nload, requests>>

Next ==
    \/ BuildPruner
    \/ \E t \in Tasks : CallNonPruner(t)
    \/ \E t \in Tasks : CallShouldKeep(t)
    \/ \E t \in Tasks : ResumeShouldKeep(t)

Spec == Init /\ [][Next]_vars

-----------------------------------------------------------------------------
(* The extractor on its own: one predicate tree, one extraction             *)

InitExtract ==
    /\ store = [l \in Locations |-> [status |-> "io_error", index |-> <<>>]]
    /\ factory = "pending"
    /\ IsTreeInput(filter_expr)
    /\ point_query_cols = Unset
    /\ pruner = Unbuilt
    /\ pc = [t \in Tasks |-> "idle"]
    /\ arg = [t \in Tasks |-> ""]
    /\ inflight = [t \in Tasks |-> NoRequest]
    /\ nload = [t \in Tasks |-> 0]
    /\ result = [t \in Tasks |-> NoResult]
    /\ requests = {}
    /\ observed = [b \in Blocks |-> {}]

Extract ==
    /\ point_query_cols = Unset
    /\ point_query_cols' \in columns_names_of_eq_expressions(filter_expr, FALSE)
    /\ UNCHANGED <<store, factory, filter_expr, pruner, pc, arg, inflight,
                   nload, result, requests, observed>>

NextExtract == Extract

SpecExtract == InitExtract /\ [][NextExtract]_vars

-----------------------------------------------------------------------------
(* Properties                                                              *)

IsIndexPruner == pruner.kind = "BloomFilterIndexPruner"

\* the three fallible steps of should_keep on block b, from the stored data
LoadOf(b) ==
    load_bloom_filter_by_columns(store, pruner.index_columns,
                                 block_bloom_index_location(b))
DecodeOf(b) == from_bloom_block(pruner.data_schema, LoadOf(b).v)
EvalOf(b) == maybe_true(DecodeOf(b).v, pruner.filter_expression)

LoadFails(b) == ~LoadOf(b).ok
DecodeFails(b) == LoadOf(b).ok /\ ~DecodeOf(b).ok
EvalFails(b) == LoadOf(b).ok /\ DecodeOf(b).ok /\ ~EvalOf(b).ok
AllSucceed(b) == LoadOf(b).ok /\ DecodeOf(b).ok /\ EvalOf(b).ok

Keep == [kind |-> "bool", value |-> TRUE, warned |-> FALSE]
KeepWarned == [kind |-> "bool", value |-> TRUE, warned |-> TRUE]
Skip == [kind |-> "bool", value |-> FALSE, warned |-> FALSE]

\* C1: whenever the load, the decode or the evaluation of a should_keep call
\* on the index pruner fails, the call returns true (keep) after logging a
\* warning; no call ever ends with an error.
C1_FailOpen ==
    \A t \in Tasks :
        pc[t] = "done" =>
            /\ result[t].kind = "bool"
            /\ (IsIndexPruner /\ ~AllSucceed(arg[t])) => result[t] = KeepWarned

C1_Witness ==
    \E t, u \in Tasks :
        /\ IsIndexPruner /\ pc[t] = "done" /\ pc[u] = "done"
        /\ LoadFails(arg[t]) \/ DecodeFails(arg[t])
        /\ EvalFails(arg[u])
        /\ result[t] = KeepWarned /\ result[u] = KeepWarned

\* the predicate a = 1
A_eq_1 == BinaryExpression(Column("a"), "=", Literal(1))

\* the stored bloom summary of column a in block b
SummaryOfA(b) == store[block_bloom_index_location(b)].index[to_bloom_column_name("a")]
HasSummaryOfA(b) ==
    /\ store[block_bloom_index_location(b)].status = "ok"
    /\ to_bloom_column_name("a") \in DOMAIN store[block_bloom_index_location(b)].index
    /\ SummaryOfA(b).valid

\* C2: when load, decode and evaluation succeed, should_keep returns exactly
\* the boolean of maybe_true, without a warning; for the predicate a = 1 that is
\* false when the summary of a lacks 1 and true when it contains 1.
C2_ReturnsMaybeTrue ==
    \A t \in Tasks :
        (pc[t] = "done" /\ IsIndexPruner /\ AllSucceed(arg[t])) =>
            /\ result[t].kind = "bool"
            /\ result[t].value = EvalOf(arg[t]).v
            /\ ~result[t].warned
            /\ (pruner.filter_expression = A_eq_1 /\ HasSummaryOfA(arg[t])) =>
                   (result[t].value <=> (1 \in SummaryOfA(arg[t]).bits))

C2_Witness ==
    \E t, u \in Tasks :
        /\ IsIndexPruner /\ pruner.filter_expression = A_eq_1
        /\ pc[t] = "done" /\ pc[u] = "done"
        /\ HasSummaryOfA(arg[t]) /\ HasSummaryOfA(arg[u])
        /\ 1 \notin SummaryOfA(arg[t]).bits /\ result[t] = Skip
        /\ 1 \in SummaryOfA(arg[u]).bits /\ result[u] = Keep

\* C3: a should_keep call on the NonPruner returns true for every block and
\* issues no load to the accessor.
C3_NonPrunerKeeps ==
    pruner.kind = "NonPruner" =>
        /\ requests = {}
        /\ \A t \in Tasks :
              pc[t] = "done" => (result[t] = Keep /\ nload[t] = 0)
        /\ \A t \in Tasks : pc[t] # "loading"

C3_Witness ==
    /\ pruner.kind = "NonPruner"
    /\ filter_expr # None
    /\ \E t, u \in Tasks :
          /\ pc[t] = "done" /\ pc[u] = "done" /\ arg[t] # arg[u]
          /\ result[t] = Keep /\ result[u] = Keep

\* C4: with no predicate, or with a predicate whose extraction yields no
\* column, the factory returns the NonPruner, so every block is kept.
C4_NoPointQueryGivesNonPruner ==
    (factory # "pending" /\
       (filter_expr = None \/ (point_query_cols.ok /\ Len(point_query_cols.v) = 0))) =>
        /\ factory = "ok"
        /\ pruner = NonPruner
        /\ \A b \in Blocks : observed[b] \subseteq {TRUE}

C4_Witness ==
    /\ factory = "ok" /\ filter_expr # None
    /\ point_query_cols.ok /\ Len(point_query_cols.v) = 0
    /\ \A b \in Blocks : observed[b] = {TRUE}

\* C5: when extraction yields a non-empty column list, the factory returns an
\* index pruner whose index_columns are exactly the bloom names of the
\* extracted columns, each once, and whose filter expression is the predicate.
C5_IndexColumnsAreTranslation ==
    (factory # "pending" /\ point_query_cols.ok /\ Len(point_query_cols.v) > 0) =>
        /\ factory = "ok"
        /\ IsIndexPruner
        /\ SeqRange(pruner.index_columns) =
              {"Bloom(" \o c \o ")" : c \in SeqRange(point_query_cols.v)}
        /\ Len(pruner.index_columns) = Cardinality(SeqRange(point_query_cols.v))
        /\ Cardinality(SeqRange(pruner.index_columns)) = Len(pruner.index_columns)
        /\ pruner.filter_expression = filter_expr

C5_Witness ==
    /\ factory = "ok" /\ IsIndexPruner
    /\ Len(point_query_cols.v) = 2
    /\ pruner.index_columns = <<"Bloom(b)", "Bloom(a)">>

\* every node of a predicate tree
RECURSIVE NodesOf(_)
NodesOf(e) ==
    {e} \cup (IF IsBinary(e) THEN NodesOf(e[2]) \cup NodesOf(e[4])
              ELSE IF IsUnary(e) THEN NodesOf(e[3])
              ELSE {})

\* the columns tested for equality against a literal somewhere in the tree
EqColumns(e) ==
    {c \in Columns :
        \E n \in NodesOf(e), v \in Literals :
            \/ n = BinaryExpression(Column(c), "=", Literal(v))
            \/ n = BinaryExpression(Literal(v), "=", Column(c))}

\* C6: columns_names_of_eq_expressions returns, without duplicates, exactly
\* the columns that some "=" node of the tree compares with a literal, in
\* either operand order; no other node contributes a column.
C6_ExtractsEqColumns ==
    point_query_cols # Unset =>
        /\ point_query_cols.ok
        /\ SeqRange(point_query_cols.v) = EqColumns(filter_expr)
        /\ Len(point_query_cols.v) = Cardinality(EqColumns(filter_expr))

C6_Witness ==
    /\ filter_expr = BinaryExpression(
                        BinaryExpression(Column("a"), "=", Literal(1)),
                        "and",
                        BinaryExpression(Column("b"), ">", Literal(2)))
    /\ point_query_cols = Ok(<<"a">>)

\* C7: the factory fails exactly when a predicate is supplied and the
\* extraction on it fails; then no pruner is returned, and in every other
\* case a pruner is.
C7_FailsOnlyOnExtractionFailure ==
    factory # "pending" =>
        /\ (factory = "err") <=> (filter_expr # None /\ ~point_query_cols.ok)
        /\ factory = "err" => pruner = Unbuilt
        /\ factory = "ok" => pruner.kind \in {"NonPruner", "BloomFilterIndexPruner"}

C7_Witness ==
    /\ factory = "err" /\ pruner = Unbuilt
    /\ filter_expr # None /\ point_query_cols = Err

\* what should_keep returns for block b when the call runs alone
AloneResult(b) ==
    IF IsIndexPruner
    THEN should_keep(filter_block_by_bloom_index(pruner, LoadOf(b)))
    ELSE non_pruner_should_keep(b)

C8_ResultsAsAlone ==
    \A t \in Tasks : pc[t] = "done" => result[t] = AloneResult(arg[t])

\* C8: under every interleaving of concurrent calls each call returns what it
\* would return alone, and no step changes the shared pruner once built.
C8_ConcurrentCallsIndependent ==
    /\ []C8_ResultsAsAlone
    /\ [][factory = "ok" => pruner' = pruner]_vars

C8_Witness ==
    \E t, u \in Tasks :
        /\ IsIndexPruner
        /\ pc[t] = "done" /\ pc[u] = "loading" /\ arg[t] # arg[u]
        /\ result[t] = Skip
        /\ AloneResult(arg[u]) = Keep

\* C9: all should_keep calls on one block return the same boolean.
C9_Idempotent ==
    \A b \in Blocks : Cardinality(observed[b]) <= 1

C9_Witness ==
    \E t, u \in Tasks :
        /\ t # u /\ IsIndexPruner
        /\ pc[t] = "done" /\ pc[u] = "done" /\ arg[t] = arg[u]
        /\ result[t] = Skip /\ result[u] = Skip

\* C10: a should_keep call on the index pruner issues exactly one load, for
\* the pruner's index columns at the bloom index location of its block, also
\* when the load fails; before any call the accessor has received no load.
C10_ExactlyOneLoad ==
    /\ \A t \in Tasks :
          /\ pc[t] = "loading" =>
                /\ nload[t] = 1
                /\ inflight[t] = [cols |-> pruner.index_columns,
                                  loc |-> arg[t] \o "/bloom_index"]
                /\ inflight[t] \in requests
          /\ (pc[t] = "done" /\ IsIndexPruner) =>
                (nload[t] = 1 /\ inflight[t] = NoRequest)
    /\ (\A t \in Tasks : pc[t] = "idle") => requests = {}
    /\ Cardinality(requests) <= Cardinality(Blocks)

C10_Witness ==
    \E t \in Tasks :
        /\ IsIndexPruner /\ pc[t] = "done" /\ LoadFails(arg[t])
        /\ nload[t] = 1 /\ result[t] = KeepWarned
        /\ Cardinality(requests) = 1

====
